---- MODULE Spec2Model ----
(***************************************************************************)
(* VoxInbox backend: the rate limiter of backend/main.py, the function-call *)
(* bridge of backend/realtime_proxy.py (OpenAIRealtimeProxy), the session   *)
(* registry of backend/main.py (websocket_endpoint), the capabilities, the  *)
(* result bounder and the SQLite cache of backend/main.py.                  *)
(*                                                                          *)
(* The specifications of the module:                                        *)
(*   SpecRate    check_rate_limit / cleanup_memory_usage                    *)
(*   Spec        one OpenAIRealtimeProxy: listener, bridge, timers          *)
(*   SpecClient  the proxy with the client handler of websocket_endpoint    *)
(*   SpecSess    websocket_endpoint handlers of one identity, logout        *)
(*   SpecCap     the capabilities and the rate limiter                      *)
(*   SpecFwd     the upstream frames: forwarding, faulty frames             *)
(*   SpecTrunc   truncate_large_result                                      *)
(*   SpecCache   cache_get / cache_set                                      *)
(* Each leaves the variables of the others unchanged.                       *)
(***************************************************************************)
EXTENDS Integers, Sequences, FiniteSets, TLC

(***************************************************************************)
(* Part 1.  RateLimiter (backend/main.py, lines 78-82, 101-106, 181-216,    *)
(* 259-275).  Time is an integer clock; the window and the ceilings are     *)
(* scaled down from 60 s and 60/30/100 calls, keeping their order.          *)
(***************************************************************************)

\* bounds of the rate-limiter model
MaxTime == 3
MaxChecks == 4
MaxStep == 1
\* scaled stand-ins of RATE_LIMIT_WINDOW_SIZE (60) and of the three ceilings
WindowSize == 1
RequestsLimit == 2
OpenAILimit == 1
GmailLimit == 3
\* scaled stand-in of the 300 s of cleanup_memory_usage
CleanupInterval == 3

Users == {"u1", "u2"}
LimitTypes == {"requests", "openai_calls", "gmail_calls"}

\* the ceiling every call site passes for a category (main.py 341, 374, 505)
LimitPerMinute(limit_type) ==
    CASE limit_type = "requests" -> RequestsLimit
      [] limit_type = "openai_calls" -> OpenAILimit
      [] limit_type = "gmail_calls" -> GmailLimit

VARIABLES
    now,              \* time.time()
    rate_limit_data,  \* user -> limit_type -> deque of timestamps (keys: users present)
    last_cleanup,     \* memory_usage_tracker['last_cleanup']
    admitted,         \* ghost: admitted timestamps still inside some window ending >= now
    lastCheck,        \* ghost: the last check_rate_limit call and what it returned
    nchecks           \* ghost: number of check_rate_limit calls so far

rateVars == <<now, rate_limit_data, last_cleanup, admitted, lastCheck, nchecks>>

VARIABLES
    openai_ws,               \* "none" | "open" | "closed": self.openai_ws
    pending_audio_response,  \* self.pending_audio_response
    retry_count,             \* retry_count of _listen_to_openai
    lpc,                     \* where the listener task is suspended
    cur,                     \* the call _execute_function is working on (0: none)
    inbox,                   \* frames the upstream sent on the link, not yet received
    timers,                  \* armed _emergency_timeout_reset tasks, oldest first
    sent_up,                 \* every event sent on openai_ws, in order
    sent_client,             \* every event sent on client_ws, in order
    calls,                   \* the function calls the upstream emitted, and their fate
    conts,                   \* the continuations (response.create) the bridge requested
    linkno,                  \* number of upstream links opened so far
    nup,                     \* number of things the upstream and the client did so far
    hpc,                     \* where the websocket_endpoint handler of the proxy is
    gh                       \* ghost: what the claims need to remember of the past

bridgeVars == <<openai_ws, pending_audio_response, retry_count, lpc, cur, inbox, timers,
                sent_up, sent_client, calls, conts, linkno, nup, hpc, gh>>

VARIABLES
    sessions,           \* the login sessions (keys of the sessions dict)
    active_websockets,  \* user -> the connection registered for it
    active_proxies,     \* user -> the proxy registered for it (named by its connection)
    wpc,                \* where each websocket_endpoint handler is suspended
    ws,                 \* "none" | "open" | "closed": each client connection
    cuser,              \* user_id of each handler
    link,               \* "none" | "open" | "closed": openai_ws of each handler's proxy
    lst,                \* the listener task of each proxy
    sretry,             \* retry_count of each listener
    replaced,           \* ghost: the connection and the proxy registered when a handler entered
    nenv                \* ghost: number of events counted by MaxEvents so far

sessVars == <<sessions, active_websockets, active_proxies, wpc, ws, cuser, link, lst,
              sretry, replaced, nenv>>

VARIABLES
    capcall             \* ghost: the last capability call and what it did

capVars == <<capcall>>

VARIABLES
    up_kinds,           \* the kinds of the upstream events handled so far
    fwd_kinds,          \* the events sent to the client for them: kind and frame number
    listening,          \* _listen_to_openai is still in its receive loop
    faults              \* the faulty frames received: the fault and how the loop went on

fwdVars == <<up_kinds, fwd_kinds, listening, faults>>

VARIABLES
    payload,            \* the value handed to truncate_large_result
    max_size,           \* its budget
    bounded,            \* what truncate_large_result returned for it, "" before the call
    kept_msgs,          \* ghost: truncated_messages of that call
    rebounded,          \* what truncate_large_result returned for the returned string
    tpc                 \* "new", "bounded", "rebounded"

truncVars == <<payload, max_size, bounded, kept_msgs, rebounded, tpc>>

VARIABLES
    tick,               \* time.time() of the cache, in ticks of 1/TicksPerSecond s
    message_cache,      \* the rows of the table: cache_key -> row
    lastGet,            \* ghost: the last cache_get call and what it returned
    lastSet,            \* ghost: the last cache_set call and the rows it deleted
    nops                \* ghost: number of cache calls so far

cacheVars == <<tick, message_cache, lastGet, lastSet, nops>>

vars == <<rateVars, bridgeVars, sessVars, capVars, fwdVars, truncVars, cacheVars>>

\* defaultdict factory (main.py 102-106)
EmptyLimits == [lt \in LimitTypes |-> <<>>]

\* while limit_deque and limit_deque[0] < cutoff: limit_deque.popleft()
RECURSIVE PopOld(_, _)
PopOld(dq, cutoff) ==
    IF dq # <<>> /\ Head(dq) < cutoff THEN PopOld(Tail(dq), cutoff) ELSE dq

\* the cutoff of check_rate_limit: now - RATE_LIMIT_WINDOW_SIZE
WindowCutoff(t) == t - WindowSize

\* "if len(limit_deque) >= limit_per_minute: return False"
LimitExceededOffByOne(dq, limit) == Len(dq) > limit
LimitExceeded(dq, limit) == Len(dq) >= limit

\* rate_limit_data[user_id] of a defaultdict: the entry is created when absent
UserLimits(data, user_id) ==
    IF user_id \in DOMAIN data THEN data[user_id] ELSE EmptyLimits

WithUser(data, user_id, limits) ==
    [u \in (DOMAIN data) \cup {user_id} |-> IF u = user_id THEN limits ELSE data[u]]

\* check_rate_limit: the value returned
CheckResult(data, user_id, limit_type, t) ==
    ~LimitExceeded(PopOld(UserLimits(data, user_id)[limit_type], WindowCutoff(t)),
                   LimitPerMinute(limit_type))

CheckDataRecordsAlways(data, user_id, limit_type, t) ==
    LET cleaned == PopOld(UserLimits(data, user_id)[limit_type], WindowCutoff(t))
    IN  WithUser(data, user_id,
                 [UserLimits(data, user_id) EXCEPT ![limit_type] = Append(cleaned, t)])

\* check_rate_limit: rate_limit_data afterwards
CheckData(data, user_id, limit_type, t) ==
    LET cleaned == PopOld(UserLimits(data, user_id)[limit_type], WindowCutoff(t))
        kept == IF LimitExceeded(cleaned, LimitPerMinute(limit_type))
                THEN cleaned ELSE Append(cleaned, t)
    IN  WithUser(data, user_id, [UserLimits(data, user_id) EXCEPT ![limit_type] = kept])

CleanupRateLimitDataAll(data, t) == [u \in {} |-> EmptyLimits]
\* cleanup_rate_limit_data: cutoff = now - 2 * window; users left empty are deleted
CleanupRateLimitData(data, t) ==
    LET cleaned == [u \in DOMAIN data |->
                      [lt \in LimitTypes |-> PopOld(data[u][lt], t - WindowSize * 2)]]
        keep == {u \in DOMAIN data : \E lt \in LimitTypes : cleaned[u][lt] # <<>>}
    IN  [u \in keep |-> cleaned[u]]

\* ghost bookkeeping: the timestamps of a sequence that are >= cutoff
RECURSIVE Since(_, _)
Since(s, cutoff) ==
    IF s = <<>> THEN <<>>
    ELSE IF Head(s) >= cutoff THEN <<Head(s)>> \o Since(Tail(s), cutoff)
         ELSE Since(Tail(s), cutoff)

NoCheck == [user |-> "none", limit_type |-> "none", result |-> FALSE,
            inWindowBefore |-> 0, evicted |-> 0, afterReject |-> FALSE]

RateInit ==
    /\ now = 0
    /\ rate_limit_data = [u \in {} |-> EmptyLimits]
    /\ last_cleanup = 0
    /\ admitted = [u \in Users |-> EmptyLimits]
    /\ lastCheck = NoCheck
    /\ nchecks = 0

\* check_rate_limit(user_id, limit_type, limit) called dt seconds after the last operation
CheckRateLimit(user_id, limit_type, dt) ==
    LET t == now + dt
        inWin == Since(admitted[user_id][limit_type], t - WindowSize)
        ok == CheckResult(rate_limit_data, user_id, limit_type, t)
        before == UserLimits(rate_limit_data, user_id)[limit_type]
    IN  /\ t <= MaxTime
        /\ nchecks < MaxChecks
        /\ now' = t
        /\ nchecks' = nchecks + 1
        /\ rate_limit_data' = CheckData(rate_limit_data, user_id, limit_type, t)
        /\ admitted' = [u \in Users |-> [lt \in LimitTypes |->
                          LET s == Since(admitted[u][lt], t - WindowSize)
                          IN  IF u = user_id /\ lt = limit_type /\ ok
                              THEN Append(s, t) ELSE s]]
        /\ lastCheck' = [user |-> user_id, limit_type |-> limit_type, result |-> ok,
                         inWindowBefore |-> Len(inWin),
                         evicted |-> Len(before) - Len(PopOld(before, WindowCutoff(t))),
                         afterReject |-> lastCheck.afterReject \/
                                         (lastCheck.user # "none" /\ ~lastCheck.result)]
        /\ UNCHANGED last_cleanup
        /\ UNCHANGED <<bridgeVars, sessVars, capVars, fwdVars, truncVars, cacheVars>>

\* cleanup_memory_usage(): the sweep runs only when 300 s (scaled) have passed
CleanupMemoryUsageAt(t) ==
    /\ now' = t
    /\ admitted' = [u \in Users |-> [lt \in LimitTypes |->
                      Since(admitted[u][lt], t - WindowSize)]]
    /\ IF t - last_cleanup < CleanupInterval
       THEN UNCHANGED <<last_cleanup, rate_limit_data>>
       ELSE /\ last_cleanup' = t
            /\ rate_limit_data' = CleanupRateLimitData(rate_limit_data, t)
    /\ UNCHANGED <<lastCheck, nchecks>>

\* cleanup_memory_usage() called when the clock has advanced by dt
CleanupMemoryUsage(dt) ==
    /\ now + dt <= MaxTime
    /\ CleanupMemoryUsageAt(now + dt)
    /\ UNCHANGED <<bridgeVars, sessVars, capVars, fwdVars, truncVars, cacheVars>>


(***************************************************************************)
(* Part 2.  One OpenAIRealtimeProxy (backend/realtime_proxy.py): the        *)
(* upstream listener task (_listen_to_openai), the function-call bridge     *)
(* (handle_openai_message, _execute_function) and the emergency timers      *)
(* (_emergency_timeout_reset).  The tasks run on one asyncio loop: the code *)
(* between two awaits is one step, and every await is a point where the     *)
(* other tasks, the upstream service and the timers may act.                *)
(***************************************************************************)

\* bounds of the bridge model
MaxUpstream == 4

\* max_retries of _listen_to_openai
MaxRetries == 3

\* the capability registry handed to the proxy (main.py GMAIL_FUNCTIONS)
GMAIL_FUNCTIONS ==
    {"search_messages", "list_unread", "list_unread_priority", "count_unread_emails",
     "get_thread", "summarize_messages", "summarize_thread", "categorize_unread",
     "create_draft", "send_draft", "schedule_send", "modify_labels", "bulk_delete",
     "mark_read", "create_calendar_event", "abort_current_action", "narrow_scope_request"}

\* what the upstream may name and pass in a function call
FunctionNames == {"search_messages", "no_such_function"}
ArgStrings == {"{\"query\": \"is:unread\"}", "{\"query\": "}

\* json.loads(arguments) raises on the cut-off string
JsonLoadsFails(arguments) == arguments = "{\"query\": "

\* how an awaited capability ends: a result, or a typed ValueError (main.py 443-451)
TypedErrors == {"QUOTA", "AUTH_EXPIRED"}
Outcomes == {"ok"} \cup TypedErrors

BridgeInit ==
    /\ openai_ws = "none"
    /\ pending_audio_response = FALSE
    /\ retry_count = 0
    /\ lpc = "idle"
    /\ cur = 0
    /\ inbox = <<>>
    /\ timers = <<>>
    /\ sent_up = <<>>
    /\ sent_client = <<>>
    /\ calls = <<>>
    /\ conts = <<>>
    /\ linkno = 0
    /\ nup = 0
    /\ hpc = "idle"
    /\ gh = [closedNoFrame |-> 0, attempts |-> 0, sleeps |-> <<>>, lateTimer |-> FALSE,
             abortedCommits |-> 0, endedBy |-> "none", echoable |-> 0]

\* events on the upstream link
SessionUpdate(l) ==
    [type |-> "session.update", call |-> 0, kind |-> "config", link |-> l, from |-> "proxy"]
FunctionOutput(n, kind) ==
    [type |-> "function_call_output", call |-> n, kind |-> kind, link |-> linkno,
     from |-> "proxy"]
ResponseCreate(n) ==
    [type |-> "response.create", call |-> n, kind |-> "bridge", link |-> linkno,
     from |-> "proxy"]

\* setup_session on a link just opened (lines 48-86)
SetupSessionSkipped(sent, l) == sent
SetupSession(sent, l) == Append(sent, SessionUpdate(l))

\* the kinds handle_client_message forwards as they are (lines 215-221)
ClientAllowlist ==
    {"input_audio_buffer.append", "input_audio_buffer.commit", "response.create",
     "conversation.item.create", "response.cancel"}

\* the kinds of message the client sends in this model
ClientKinds == {"input_audio_buffer.append", "input_audio_buffer.commit", "audio", "ping"}

\* what handle_client_message sends upstream first for a message of a kind:
\* json.dumps(message_data) for the allowlist (line 223), an
\* input_audio_buffer.append built from a legacy "audio" message (lines 239-245)
ClientEvent(kind) ==
    [type |-> IF kind = "audio" THEN "input_audio_buffer.append" ELSE kind,
     call |-> 0, kind |-> "client", link |-> linkno, from |-> kind]

\* "if message_type == 'input_audio_buffer.commit'" (line 229)
CommitNeedsResponseNever(kind) == FALSE
CommitNeedsResponse(kind) == kind = "input_audio_buffer.commit"

\* the response.create handle_client_message adds after a commit (lines 229-235)
ManualResponseCreate ==
    [type |-> "response.create", call |-> 0, kind |-> "manual", link |-> linkno,
     from |-> "proxy"]

\* events on the client connection
Forwarded(type) == [type |-> type, code |-> "none"]
TimeoutError == [type |-> "error", code |-> "emergency_reset"]

\* "try: await self.client_ws.send_json(...) except Exception": an event for a
\* client connection that is closed raises and is dropped (lines 264-268, 642-650)
ToClient(ev) == IF hpc = "closed" THEN sent_client ELSE Append(sent_client, ev)

\* ghost: a frame was received from the upstream
FrameReceived(g) == [g EXCEPT !.closedNoFrame = 0]

\* ghost: a True -> False change of the flag is noted on the latest continuation
NoteClear(cs) ==
    IF pending_audio_response /\ cs # <<>>
    THEN [cs EXCEPT ![Len(cs)].clears = @ + 1] ELSE cs

\* ghost: a response.done was handled while the timers of these continuations
\* were still asleep
NoteDone(cs) ==
    [j \in 1..Len(cs) |-> IF cs[j].fired THEN cs[j]
                          ELSE [cs[j] EXCEPT !.anyDoneBeforeFire = TRUE]]

\* ghost: a timeout error went to the client while this continuation was the latest
NoteTimeoutError(cs) ==
    [cs EXCEPT ![Len(cs)].errsFor = @ + 1]

\* the flag after the except block of _execute_function (line 554)
PendingAfterError == FALSE

\* the flag after _emergency_timeout_reset found it set (line 639)
PendingAfterTimeoutStuck == pending_audio_response
PendingAfterTimeout == FALSE

\* the flag after a response.done was handled (lines 328-330)
PendingAfterResponseDone == FALSE

\* except websockets.exceptions.ConnectionClosed (lines 615-628): count the
\* closure, then reconnect or give up
ConnectionClosedInListener(g) ==
    /\ gh' = [g EXCEPT !.closedNoFrame = @ + 1]
    /\ retry_count' = retry_count + 1
    /\ lpc' = IF retry_count + 1 < MaxRetries THEN "connecting" ELSE "stopped"

\* the notice of the fallback (main.py 1063-1066)
DirectModeNotice == [type |-> "system", code |-> "direct_mode"]

\* start_proxy: connect_to_openai, setup_session, create the listener task; when
\* the connection fails websocket_endpoint sends the notice and enters the loop
\* of the direct mode (main.py 1060-1066)
StartProxy(connected) ==
    /\ UNCHANGED <<rateVars, sessVars, capVars, fwdVars, truncVars, cacheVars>>
    /\ lpc = "idle"
    /\ IF connected
       THEN /\ openai_ws' = "open"
            /\ linkno' = linkno + 1
            /\ sent_up' = SetupSession(sent_up, linkno + 1)
            /\ lpc' = "recv"
            /\ hpc' = "loop"
            /\ UNCHANGED sent_client
       ELSE /\ lpc' = "not_started"
            /\ hpc' = "direct"
            /\ sent_client' = Append(sent_client, DirectModeNotice)
            /\ UNCHANGED <<openai_ws, linkno, sent_up>>
    /\ UNCHANGED <<pending_audio_response, retry_count, cur, inbox, timers, calls, conts,
                   nup, gh>>

\* the upstream emits response.function_call_arguments.done
UpstreamEmitsCall(name, arguments) ==
    /\ UNCHANGED <<rateVars, sessVars, capVars, fwdVars, truncVars, cacheVars>>
    /\ openai_ws = "open"
    /\ lpc \notin {"idle", "not_started"}
    /\ nup < MaxUpstream
    /\ nup' = nup + 1
    /\ calls' = Append(calls, [name |-> name, arguments |-> arguments,
                               state |-> "sent", arrivedPending |-> FALSE,
                               outcome |-> "none", output |-> "none", creates |-> 0,
                               escaped |-> FALSE, pendingAtEnd |-> FALSE,
                               echoed |-> FALSE])
    /\ inbox' = Append(inbox, [type |-> "response.function_call_arguments.done",
                               n |-> Len(calls) + 1])
    /\ UNCHANGED <<openai_ws, pending_audio_response, retry_count, lpc, cur, timers,
                   sent_up, sent_client, conts, linkno, hpc, gh>>

\* the upstream emits response.done: of continuation k, or (k = 0) of another
\* response, such as the one that carried the function call
UpstreamEmitsDone(k) ==
    /\ UNCHANGED <<rateVars, sessVars, capVars, fwdVars, truncVars, cacheVars>>
    /\ openai_ws = "open"
    /\ nup < MaxUpstream
    /\ nup' = nup + 1
    /\ IF k = 0
       THEN UNCHANGED conts
       ELSE /\ k \in 1..Len(conts)
            /\ ~conts[k].upDone
            /\ conts' = [conts EXCEPT ![k].upDone = TRUE]
    /\ inbox' = Append(inbox, [type |-> "response.done", n |-> k])
    /\ UNCHANGED <<openai_ws, pending_audio_response, retry_count, lpc, cur, timers,
                   sent_up, sent_client, calls, linkno, hpc, gh>>

\* the upstream acknowledges the function output of call n with
\* conversation.item.created, which carries the item and so its output text
UpstreamEchoesItem(n) ==
    /\ UNCHANGED <<rateVars, sessVars, capVars, fwdVars, truncVars, cacheVars>>
    /\ openai_ws = "open"
    /\ nup < MaxUpstream
    /\ nup' = nup + 1
    /\ n \in 1..Len(calls)
    /\ calls[n].output # "none"
    /\ ~calls[n].echoed
    /\ calls' = [calls EXCEPT ![n].echoed = TRUE]
    /\ inbox' = Append(inbox, [type |-> "conversation.item.created", n |-> n])
    /\ UNCHANGED <<openai_ws, pending_audio_response, retry_count, lpc, cur, timers,
                   sent_up, sent_client, conts, linkno, hpc, gh>>

\* the upstream (or the network) closes the link
UpstreamCloses ==
    /\ UNCHANGED <<rateVars, sessVars, capVars, fwdVars, truncVars, cacheVars>>
    /\ openai_ws = "open"
    /\ nup < MaxUpstream
    /\ nup' = nup + 1
    /\ openai_ws' = "closed"
    /\ UNCHANGED <<pending_audio_response, retry_count, lpc, cur, inbox, timers, sent_up,
                   sent_client, calls, conts, linkno, hpc, gh>>

\* the except block of _execute_function (lines 548-566) for call n: the flag is
\* reset, the error output is sent, and a send on a closed link raises
\* ConnectionClosed out of _execute_function into the listener
ExceptBlock(n, outcome, cs, g) ==
    /\ pending_audio_response' = PendingAfterError
    /\ conts' = NoteClear(conts)
    /\ cur' = 0
    /\ IF openai_ws = "open"
       THEN /\ sent_up' = Append(sent_up, FunctionOutput(n, "error"))
            /\ calls' = [cs EXCEPT ![n].outcome = outcome, ![n].output = "error",
                                   ![n].state = "done",
                                   ![n].pendingAtEnd = PendingAfterError]
            /\ lpc' = "recv"
            /\ gh' = g
            /\ UNCHANGED retry_count
       ELSE /\ calls' = [cs EXCEPT ![n].outcome = outcome, ![n].escaped = TRUE,
                                   ![n].state = "done",
                                   ![n].pendingAtEnd = PendingAfterError]
            /\ UNCHANGED sent_up
            /\ ConnectionClosedInListener(g)

\* handle_openai_message, response.done (lines 264-268, 306-341)
HandleResponseDone(k) ==
    /\ sent_client' = ToClient(Forwarded("response.done"))
    /\ gh' = FrameReceived(gh)
    /\ pending_audio_response' = PendingAfterResponseDone
    /\ conts' = LET c1 == NoteDone(NoteClear(conts))
                IN  IF k > 0
                    THEN [c1 EXCEPT ![k].doneSeen = TRUE, ![k].doneBeforeFire = ~c1[k].fired]
                    ELSE c1
    /\ UNCHANGED <<openai_ws, retry_count, lpc, cur, timers, sent_up, calls, linkno, nup,
                   hpc>>

\* handle_openai_message, conversation.item.created (lines 264-268, 294-295):
\* forwarded to the client as it came
HandleItemCreated(n) ==
    /\ sent_client' = ToClient([type |-> "conversation.item.created",
                                code |-> IF calls[n].output = "error"
                                         THEN calls[n].outcome ELSE "none"])
    /\ gh' = FrameReceived(gh)
    /\ UNCHANGED <<openai_ws, pending_audio_response, retry_count, lpc, cur, timers,
                   sent_up, calls, conts, linkno, nup, hpc>>

\* handle_openai_message, response.function_call_arguments.done (lines 372-389)
\* and _execute_function up to its first await (lines 414-490)
HandleFunctionCallDone(n) ==
    LET cs == [calls EXCEPT ![n].arrivedPending = pending_audio_response]
    IN  IF JsonLoadsFails(calls[n].arguments)
        THEN /\ ExceptBlock(n, "JSON", cs, FrameReceived(gh))
             /\ UNCHANGED <<openai_ws, timers, sent_client, linkno, nup, hpc>>
        ELSE IF calls[n].name \in GMAIL_FUNCTIONS
        THEN /\ lpc' = "exec"
             /\ cur' = n
             /\ calls' = [cs EXCEPT ![n].state = "exec"]
             /\ gh' = FrameReceived(gh)
             /\ UNCHANGED <<openai_ws, pending_audio_response, retry_count, timers, sent_up,
                            sent_client, conts, linkno, nup, hpc>>
        ELSE /\ calls' = [cs EXCEPT ![n].outcome = "unknown", ![n].state = "done",
                                    ![n].pendingAtEnd = pending_audio_response]
             /\ gh' = FrameReceived(gh)
             /\ UNCHANGED <<openai_ws, pending_audio_response, retry_count, lpc, cur, timers,
                            sent_up, sent_client, conts, linkno, nup, hpc>>

\* _listen_to_openai: recv() returns a frame and handle_openai_message runs
ListenerRecv ==
    /\ UNCHANGED <<rateVars, sessVars, capVars, fwdVars, truncVars, cacheVars>>
    /\ lpc = "recv"
    /\ inbox # <<>>
    /\ inbox' = Tail(inbox)
    /\ CASE Head(inbox).type = "response.done" -> HandleResponseDone(Head(inbox).n)
         [] Head(inbox).type = "conversation.item.created" ->
                HandleItemCreated(Head(inbox).n)
         [] Head(inbox).type = "response.function_call_arguments.done" ->
                HandleFunctionCallDone(Head(inbox).n)

\* _listen_to_openai: recv() raises ConnectionClosed
ListenerRecvClosed ==
    /\ UNCHANGED <<rateVars, sessVars, capVars, fwdVars, truncVars, cacheVars>>
    /\ lpc = "recv"
    /\ inbox = <<>>
    /\ openai_ws = "closed"
    /\ ConnectionClosedInListener(gh)
    /\ UNCHANGED <<openai_ws, pending_audio_response, cur, inbox, timers, sent_up,
                   sent_client, calls, conts, linkno, nup, hpc>>

\* _execute_function: "result = await func(...)" ends (lines 420-507), then the
\* function result is sent (lines 509-521)
CapabilityReturns(outcome) ==
    /\ UNCHANGED <<rateVars, sessVars, capVars, fwdVars, truncVars, cacheVars>>
    /\ lpc = "exec"
    /\ IF outcome = "ok" /\ openai_ws = "open"
       THEN /\ sent_up' = Append(sent_up, FunctionOutput(cur, "result"))
            /\ calls' = [calls EXCEPT ![cur].outcome = "ok", ![cur].output = "result",
                                      ![cur].state = "sent_result"]
            /\ lpc' = "sent_result"
            /\ UNCHANGED <<pending_audio_response, retry_count, cur, conts, gh>>
       ELSE ExceptBlock(cur, outcome, calls, gh)
    /\ UNCHANGED <<openai_ws, inbox, timers, sent_client, linkno, nup, hpc>>

NewContinuation(n) ==
    [call |-> n, armed |-> FALSE, fired |-> FALSE, upDone |-> FALSE, doneSeen |-> FALSE,
     doneBeforeFire |-> FALSE, anyDoneBeforeFire |-> FALSE, errs |-> 0, errsFor |-> 0,
     clears |-> 0]

\* _execute_function after the function result was sent: the guarded
\* continuation request (lines 523-542)
AfterSendResult ==
    /\ UNCHANGED <<rateVars, sessVars, capVars, fwdVars, truncVars, cacheVars>>
    /\ lpc = "sent_result"
    /\ IF ~pending_audio_response
       THEN IF openai_ws = "open"
            THEN /\ pending_audio_response' = TRUE
                 /\ sent_up' = Append(sent_up, ResponseCreate(cur))
                 /\ conts' = Append(conts, NewContinuation(cur))
                 /\ calls' = [calls EXCEPT ![cur].creates = @ + 1,
                                           ![cur].state = "sent_create"]
                 /\ lpc' = "sent_create"
                 /\ UNCHANGED <<retry_count, cur, gh>>
            ELSE ExceptBlock(cur, "ok", calls, gh)
       ELSE /\ lpc' = "recv"
            /\ cur' = 0
            /\ calls' = [calls EXCEPT ![cur].state = "done",
                                      ![cur].pendingAtEnd = pending_audio_response]
            /\ UNCHANGED <<pending_audio_response, retry_count, sent_up, conts, gh>>
    /\ UNCHANGED <<openai_ws, inbox, timers, sent_client, linkno, nup, hpc>>

ArmEmergencyTimerNever(ts, k) == ts
\* "asyncio.create_task(self._emergency_timeout_reset(10.0))" (line 540): a timer
\* task for continuation k joins the sleeping ones
ArmEmergencyTimer(ts, k) == Append(ts, k)

\* _execute_function after the continuation request was sent: the emergency
\* timer is armed (line 540)
AfterSendCreate ==
    /\ UNCHANGED <<rateVars, sessVars, capVars, fwdVars, truncVars, cacheVars>>
    /\ lpc = "sent_create"
    /\ timers' = ArmEmergencyTimer(timers, Len(conts))
    /\ conts' = [conts EXCEPT ![Len(conts)].armed = TRUE]
    /\ calls' = [calls EXCEPT ![cur].state = "done",
                              ![cur].pendingAtEnd = pending_audio_response]
    /\ lpc' = "recv"
    /\ cur' = 0
    /\ UNCHANGED <<openai_ws, pending_audio_response, retry_count, inbox, sent_up,
                   sent_client, linkno, nup, hpc, gh>>

\* _emergency_timeout_reset after its sleep (lines 634-650); the timers sleep
\* the same 10 s, so they end in the order they were armed
TimerFires ==
    /\ UNCHANGED <<rateVars, sessVars, capVars, fwdVars, truncVars, cacheVars>>
    /\ timers # <<>>
    /\ timers' = Tail(timers)
    /\ IF pending_audio_response
       THEN /\ pending_audio_response' = PendingAfterTimeout
            /\ sent_client' = ToClient(TimeoutError)
            /\ gh' = [gh EXCEPT !.lateTimer = @ \/ hpc = "closed"]
            /\ conts' = [NoteTimeoutError(NoteClear(conts))
                           EXCEPT ![Head(timers)].fired = TRUE,
                                  ![Head(timers)].errs = @ + 1]
       ELSE /\ conts' = [conts EXCEPT ![Head(timers)].fired = TRUE]
            /\ UNCHANGED <<pending_audio_response, sent_client, gh>>
    /\ UNCHANGED <<openai_ws, retry_count, lpc, cur, inbox, sent_up, calls, linkno, nup,
                   hpc>>

\* websocket_endpoint's finally block for this proxy (main.py 1086-1097):
\* cleanup() closes openai_ws if it is set (realtime_proxy.py 652-656)
HandlerFinally ==
    /\ hpc' = "closed"
    /\ openai_ws' = IF openai_ws = "none" THEN "none" ELSE "closed"

\* websocket_endpoint receives a client message that is no direct function call
\* and handle_client_message runs up to its first await (main.py 1050-1059,
\* realtime_proxy.py 210-249); a send on a closed link raises into the handler
ClientMessage(kind) ==
    /\ UNCHANGED <<rateVars, sessVars, capVars, fwdVars, truncVars, cacheVars>>
    /\ hpc = "loop"
    /\ nup < MaxUpstream
    /\ nup' = nup + 1
    /\ IF kind \in ClientAllowlist \/ kind = "audio"
       THEN IF openai_ws = "open"
            THEN /\ sent_up' = Append(sent_up, ClientEvent(kind))
                 /\ hpc' = IF CommitNeedsResponse(kind) THEN "commit" ELSE "loop"
                 /\ UNCHANGED openai_ws
                 /\ UNCHANGED gh
            ELSE /\ HandlerFinally
                 /\ gh' = [gh EXCEPT !.endedBy = "send"]
                 /\ UNCHANGED sent_up
       ELSE UNCHANGED <<sent_up, hpc, openai_ws, gh>>
    /\ UNCHANGED <<pending_audio_response, retry_count, lpc, cur, inbox, timers,
                   sent_client, calls, conts, linkno>>

\* handle_client_message after the commit was sent: the response.create of
\* push-to-talk (lines 229-236)
AfterSendCommit ==
    /\ UNCHANGED <<rateVars, sessVars, capVars, fwdVars, truncVars, cacheVars>>
    /\ hpc = "commit"
    /\ IF openai_ws = "open"
       THEN /\ sent_up' = Append(sent_up, ManualResponseCreate)
            /\ hpc' = "loop"
            /\ UNCHANGED <<openai_ws, gh>>
       ELSE /\ HandlerFinally
            /\ gh' = [gh EXCEPT !.abortedCommits = @ + 1, !.endedBy = "send"]
            /\ UNCHANGED sent_up
    /\ UNCHANGED <<pending_audio_response, retry_count, lpc, cur, inbox, timers,
                   sent_client, calls, conts, linkno, nup>>

\* what the client may send in the direct mode
DirectKinds == ClientKinds \cup {"function_call"}

\* the loop of the direct mode (main.py 1069-1080): a direct function call is
\* answered by handle_direct_function_call, any other message by an echo
DirectReplyNone(kind) == <<>>
DirectReply(kind) ==
    IF kind = "function_call"
    THEN <<[type |-> "function_result", code |-> "none"]>>
    ELSE <<[type |-> "echo", code |-> "none"]>>

\* websocket_endpoint receives a client message in the direct mode
DirectMessage(kind) ==
    /\ UNCHANGED <<rateVars, sessVars, capVars, fwdVars, truncVars, cacheVars>>
    /\ hpc = "direct"
    /\ nup < MaxUpstream
    /\ nup' = nup + 1
    /\ sent_client' = sent_client \o DirectReply(kind)
    /\ gh' = [gh EXCEPT !.echoable = IF kind = "function_call" THEN @ ELSE @ + 1]
    /\ UNCHANGED <<openai_ws, pending_audio_response, retry_count, lpc, cur, inbox, timers,
                   sent_up, calls, conts, linkno, hpc>>

\* the client disconnects: receive_text raises WebSocketDisconnect and the
\* finally block runs (main.py 1050, 1082-1097)
ClientGoesAway ==
    /\ UNCHANGED <<rateVars, sessVars, capVars, fwdVars, truncVars, cacheVars>>
    /\ hpc \in {"loop", "direct"}
    /\ nup < MaxUpstream
    /\ nup' = nup + 1
    /\ HandlerFinally
    /\ gh' = [gh EXCEPT !.endedBy = "client"]
    /\ UNCHANGED <<pending_audio_response, retry_count, lpc, cur, inbox, timers, sent_up,
                   sent_client, calls, conts, linkno>>

\* "await asyncio.sleep(2 ** retry_count)" (line 625)
BackoffSeconds(count) == 2 ^ count

\* _listen_to_openai: the reconnection attempt (lines 618-625)
Reconnect(connected) ==
    /\ UNCHANGED <<rateVars, sessVars, capVars, fwdVars, truncVars, cacheVars>>
    /\ lpc = "connecting"
    /\ IF connected
       THEN /\ openai_ws' = "open"
            /\ linkno' = linkno + 1
            /\ inbox' = <<>>
            /\ sent_up' = SetupSession(sent_up, linkno + 1)
            /\ retry_count' = 0
            /\ lpc' = "recv"
            /\ gh' = [gh EXCEPT !.attempts = 0, !.sleeps = <<>>]
       ELSE /\ lpc' = "backoff"
            /\ gh' = [gh EXCEPT !.attempts = @ + 1,
                                !.sleeps = Append(@, BackoffSeconds(retry_count))]
            /\ UNCHANGED <<openai_ws, linkno, inbox, sent_up, retry_count>>
    /\ UNCHANGED <<pending_audio_response, cur, timers, sent_client, calls, conts, nup,
                   hpc>>

\* the backoff sleep ends and the while loop calls recv() again (lines 592-595, 625)
BackoffDone ==
    /\ UNCHANGED <<rateVars, sessVars, capVars, fwdVars, truncVars, cacheVars>>
    /\ lpc = "backoff"
    /\ lpc' = "recv"
    /\ UNCHANGED <<openai_ws, pending_audio_response, retry_count, cur, inbox, timers,
                   sent_up, sent_client, calls, conts, linkno, nup, hpc, gh>>


(***************************************************************************)
(* Part 3.  The session registry (backend/main.py): websocket_endpoint,     *)
(* logout, and for each handler's proxy its upstream link and its listener  *)
(* task (backend/realtime_proxy.py: start_proxy, cleanup,                   *)
(* _listen_to_openai).  A connection and the proxy its handler creates      *)
(* carry the same number.  Each action runs a handler from one await to     *)
(* the next.                                                                *)
(***************************************************************************)

\* bound of the session model: the connections that arrive, the connections and
\* links that the other side closes and the connection attempts that fail, together
MaxEvents == 2

Conns == 1..MaxEvents
SessionIds == {"s1", "s2"}
\* both login sessions belong to one Google account (two browsers)
SessionUser(session_id) == "u1"

SessInit ==
    /\ sessions = {}
    /\ active_websockets = [u \in Users |-> 0]
    /\ active_proxies = [u \in Users |-> 0]
    /\ wpc = [c \in Conns |-> "new"]
    /\ ws = [c \in Conns |-> "none"]
    /\ cuser = [c \in Conns |-> "none"]
    /\ link = [c \in Conns |-> "none"]
    /\ lst = [c \in Conns |-> "none"]
    /\ sretry = [c \in Conns |-> 0]
    /\ replaced = [c \in Conns |-> [ws |-> 0, proxy |-> 0]]
    /\ nenv = 0

\* oauth2callback stores the session (lines 987-994)
Login(session_id) ==
    /\ UNCHANGED <<rateVars, bridgeVars, capVars, fwdVars, truncVars, cacheVars>>
    /\ session_id \notin sessions
    /\ sessions' = sessions \cup {session_id}
    /\ UNCHANGED <<active_websockets, active_proxies, wpc, ws, cuser, link, lst, sretry,
                   replaced, nenv>>

\* logout (lines 901-916): the registry entry goes, the socket is not closed
Logout(session_id) ==
    /\ UNCHANGED <<rateVars, bridgeVars, capVars, fwdVars, truncVars, cacheVars>>
    /\ session_id \in sessions
    /\ active_websockets' = [active_websockets EXCEPT ![SessionUser(session_id)] = 0]
    /\ sessions' = sessions \ {session_id}
    /\ UNCHANGED <<active_proxies, wpc, ws, cuser, link, lst, sretry, replaced, nenv>>

\* websocket_endpoint lines 1032-1043: register the connection, create and
\* register the proxy, start_proxy awaits connect_to_openai
Register(c, u) ==
    /\ active_websockets' = [active_websockets EXCEPT ![u] = c]
    /\ active_proxies' = [active_proxies EXCEPT ![u] = c]
    /\ wpc' = [wpc EXCEPT ![c] = "connecting"]

\* websocket_endpoint lines 1024-1030: cleanup() of the registered proxy awaits
\* openai_ws.close() when openai_ws is set, and returns at once when it is None
CleanOldProxy(c, u) ==
    IF active_proxies[u] # 0 /\ link[active_proxies[u]] # "none"
    THEN /\ link' = [link EXCEPT ![active_proxies[u]] = "closed"]
         /\ wpc' = [wpc EXCEPT ![c] = "cleaned_old"]
         /\ UNCHANGED <<active_websockets, active_proxies>>
    ELSE /\ Register(c, u)
         /\ UNCHANGED link

\* websocket_endpoint lines 1006-1021: accept, verify the session, close the
\* registered connection of the user
Enter(c, session_id) ==
    /\ UNCHANGED <<rateVars, bridgeVars, capVars, fwdVars, truncVars, cacheVars>>
    /\ wpc[c] = "new"
    /\ \A b \in Conns : b < c => wpc[b] # "new"
    /\ nenv < MaxEvents
    /\ nenv' = nenv + 1
    /\ IF session_id \notin sessions
       THEN /\ ws' = [ws EXCEPT ![c] = "closed"]
            /\ wpc' = [wpc EXCEPT ![c] = "returned"]
            /\ UNCHANGED <<cuser, replaced, active_websockets, active_proxies, link>>
       ELSE LET u == SessionUser(session_id)
            IN  /\ cuser' = [cuser EXCEPT ![c] = u]
                /\ replaced' = [replaced EXCEPT ![c] = [ws |-> active_websockets[u],
                                                        proxy |-> active_proxies[u]]]
                /\ IF active_websockets[u] # 0
                   THEN /\ ws' = [ws EXCEPT ![c] = "open",
                                            ![active_websockets[u]] = "closed"]
                        /\ wpc' = [wpc EXCEPT ![c] = "closed_old"]
                        /\ UNCHANGED <<active_websockets, active_proxies, link>>
                   ELSE /\ ws' = [ws EXCEPT ![c] = "open"]
                        /\ CleanOldProxy(c, u)
    /\ UNCHANGED <<sessions, lst, sretry>>

\* the close of the old connection returned (line 1019): go on at line 1024
AfterCloseOld(c) ==
    /\ UNCHANGED <<rateVars, bridgeVars, capVars, fwdVars, truncVars, cacheVars>>
    /\ wpc[c] = "closed_old"
    /\ CleanOldProxy(c, cuser[c])
    /\ UNCHANGED <<sessions, ws, cuser, lst, sretry, replaced, nenv>>

\* cleanup() of the old proxy returned (line 1027): del active_proxies[user_id]
\* at line 1030 raises KeyError when another handler deleted the entry meanwhile
AfterCleanOld(c) ==
    /\ UNCHANGED <<rateVars, bridgeVars, capVars, fwdVars, truncVars, cacheVars>>
    /\ wpc[c] = "cleaned_old"
    /\ IF active_proxies[cuser[c]] = 0
       THEN /\ wpc' = [wpc EXCEPT ![c] = "crashed"]
            /\ ws' = [ws EXCEPT ![c] = "closed"]
            /\ UNCHANGED <<active_websockets, active_proxies>>
       ELSE /\ Register(c, cuser[c])
            /\ UNCHANGED ws
    /\ UNCHANGED <<sessions, cuser, link, lst, sretry, replaced, nenv>>

\* websocket_endpoint lines 1086-1101, up to the await of cleanup()
Finally(c) ==
    LET u == cuser[c]
        p == active_proxies[u]
    IN  /\ active_websockets' = IF active_websockets[u] = c
                                THEN [active_websockets EXCEPT ![u] = 0]
                                ELSE active_websockets
        /\ IF p # 0 /\ link[p] # "none"
           THEN /\ link' = [link EXCEPT ![p] = "closed"]
                /\ wpc' = [wpc EXCEPT ![c] = "fin_cleaned"]
                /\ UNCHANGED active_proxies
                /\ UNCHANGED rateVars
           ELSE /\ active_proxies' = [active_proxies EXCEPT ![u] = 0]
                /\ wpc' = [wpc EXCEPT ![c] = "done"]
                /\ UNCHANGED link
                /\ CleanupMemoryUsageAt(now)

\* start_proxy returns (realtime_proxy.py lines 568-585, main.py lines 1043-1066)
ConnectDone(c, connected) ==
    /\ UNCHANGED <<bridgeVars, capVars, fwdVars, truncVars, cacheVars>>
    /\ wpc[c] = "connecting"
    /\ IF connected
       THEN /\ link' = [link EXCEPT ![c] = "open"]
            /\ lst' = [lst EXCEPT ![c] = "recv"]
            /\ wpc' = [wpc EXCEPT ![c] = "loop"]
            /\ UNCHANGED <<active_websockets, active_proxies, rateVars>>
       ELSE /\ nenv < MaxEvents
            /\ IF ws[c] = "open"
               THEN /\ wpc' = [wpc EXCEPT ![c] = "direct"]
                    /\ UNCHANGED <<active_websockets, active_proxies, link, rateVars>>
               ELSE Finally(c)
            /\ UNCHANGED lst
    /\ nenv' = IF connected THEN nenv ELSE nenv + 1
    /\ UNCHANGED <<sessions, ws, cuser, sretry, replaced>>

\* receive_text() raises WebSocketDisconnect on a closed connection (lines 1050, 1070)
ReceiveRaises(c) ==
    /\ UNCHANGED <<bridgeVars, capVars, fwdVars, truncVars, cacheVars>>
    /\ wpc[c] \in {"loop", "direct"}
    /\ ws[c] = "closed"
    /\ Finally(c)
    /\ UNCHANGED <<sessions, ws, cuser, lst, sretry, replaced, nenv>>

\* a client message is forwarded (line 1059, handle_client_message lines 209-222):
\* the send on a closed upstream link raises ConnectionClosed into the handler
ClientSends(c) ==
    /\ UNCHANGED <<bridgeVars, capVars, fwdVars, truncVars, cacheVars>>
    /\ wpc[c] = "loop"
    /\ ws[c] = "open"
    /\ link[c] = "closed"
    /\ Finally(c)
    /\ UNCHANGED <<sessions, ws, cuser, lst, sretry, replaced, nenv>>

\* cleanup() returned in the finally block (line 1094): del at line 1097, then
\* cleanup_memory_usage()
AfterFinallyCleanup(c) ==
    /\ UNCHANGED <<bridgeVars, capVars, fwdVars, truncVars, cacheVars>>
    /\ wpc[c] = "fin_cleaned"
    /\ IF active_proxies[cuser[c]] = 0
       THEN /\ wpc' = [wpc EXCEPT ![c] = "crashed"]
            /\ UNCHANGED <<active_proxies, rateVars>>
       ELSE /\ active_proxies' = [active_proxies EXCEPT ![cuser[c]] = 0]
            /\ wpc' = [wpc EXCEPT ![c] = "done"]
            /\ CleanupMemoryUsageAt(now)
    /\ UNCHANGED <<sessions, active_websockets, ws, cuser, link, lst, sretry, replaced,
                   nenv>>

\* the browser closes its connection
ClientDisconnects(c) ==
    /\ UNCHANGED <<rateVars, bridgeVars, capVars, fwdVars, truncVars, cacheVars>>
    /\ ws[c] = "open"
    /\ nenv < MaxEvents
    /\ nenv' = nenv + 1
    /\ ws' = [ws EXCEPT ![c] = "closed"]
    /\ UNCHANGED <<sessions, active_websockets, active_proxies, wpc, cuser, link, lst,
                   sretry, replaced>>

\* the upstream service closes a link
LinkCloses(p) ==
    /\ UNCHANGED <<rateVars, bridgeVars, capVars, fwdVars, truncVars, cacheVars>>
    /\ link[p] = "open"
    /\ nenv < MaxEvents
    /\ nenv' = nenv + 1
    /\ link' = [link EXCEPT ![p] = "closed"]
    /\ UNCHANGED <<sessions, active_websockets, active_proxies, wpc, ws, cuser, lst,
                   sretry, replaced>>

\* _listen_to_openai of proxy p: recv() raises ConnectionClosed (lines 612-616, 626-628)
ListenerSeesClosed(p) ==
    /\ UNCHANGED <<rateVars, bridgeVars, capVars, fwdVars, truncVars, cacheVars>>
    /\ lst[p] = "recv"
    /\ link[p] = "closed"
    /\ sretry' = [sretry EXCEPT ![p] = @ + 1]
    /\ lst' = [lst EXCEPT ![p] = IF sretry[p] + 1 < MaxRetries THEN "connecting"
                                                               ELSE "stopped"]
    /\ UNCHANGED <<sessions, active_websockets, active_proxies, wpc, ws, cuser, link,
                   replaced, nenv>>

\* _listen_to_openai of proxy p: the reconnection attempt (lines 618-625); after a
\* failed attempt and the backoff sleep, recv() on the old closed link raises again
ListenerReconnects(p, connected) ==
    /\ UNCHANGED <<rateVars, bridgeVars, capVars, fwdVars, truncVars, cacheVars>>
    /\ lst[p] = "connecting"
    /\ IF connected
       THEN /\ link' = [link EXCEPT ![p] = "open"]
            /\ sretry' = [sretry EXCEPT ![p] = 0]
            /\ lst' = [lst EXCEPT ![p] = "recv"]
       ELSE /\ nenv < MaxEvents
            /\ sretry' = [sretry EXCEPT ![p] = @ + 1]
            /\ lst' = [lst EXCEPT ![p] = IF sretry[p] + 1 < MaxRetries THEN "connecting"
                                                                       ELSE "stopped"]
            /\ UNCHANGED link
    /\ nenv' = IF connected THEN nenv ELSE nenv + 1
    /\ UNCHANGED <<sessions, active_websockets, active_proxies, wpc, ws, cuser, replaced>>


(***************************************************************************)
(* Part 4.  The capabilities (backend/main.py, lines 371-832) as            *)
(* _execute_function awaits them (backend/realtime_proxy.py, lines          *)
(* 420-490): which of them ask check_rate_limit before they call the        *)
(* mailbox provider or the conversational service.                          *)
(***************************************************************************)

\* the category a capability passes to check_rate_limit before anything else:
\* search_messages (line 374) and what goes through it (list_unread,
\* list_unread_priority, categorize_unread), summarize_messages (505),
\* summarize_thread (560); the other capabilities make no check
RateCategory(name) ==
    CASE name \in {"search_messages", "list_unread", "list_unread_priority",
                   "categorize_unread"} -> "gmail_calls"
      [] name \in {"summarize_messages", "summarize_thread"} -> "openai_calls"
      [] OTHER -> "none"

\* the capabilities that are stubs and call no provider (lines 688-696, 766-778, 820-832)
CallsProvider(name) ==
    name \notin {"schedule_send", "create_calendar_event", "abort_current_action",
                 "narrow_scope_request"}

\* search_messages runs cleanup_memory_usage() once admitted (lines 378-379)
SweepsAfterCheck(name) == RateCategory(name) = "gmail_calls"

\* the capabilities the upstream asks for in this model
CapNames == {"search_messages", "summarize_thread", "create_draft", "abort_current_action"}

\* "result = await func(self.user_id, ...)" of _execute_function for a registered
\* capability, dt seconds after the last operation
InvokeCapability(user_id, name, dt) ==
    LET t == now + dt
        cat == RateCategory(name)
        ok == IF cat = "none" THEN TRUE
              ELSE CheckResult(rate_limit_data, user_id, cat, t)
        data1 == IF cat = "none" THEN rate_limit_data
                 ELSE CheckData(rate_limit_data, user_id, cat, t)
        sweep == ok /\ SweepsAfterCheck(name) /\ t - last_cleanup >= CleanupInterval
    IN  /\ UNCHANGED <<bridgeVars, sessVars, fwdVars, truncVars, cacheVars>>
        /\ name \in GMAIL_FUNCTIONS
        /\ t <= MaxTime
        /\ nchecks < MaxChecks
        /\ now' = t
        /\ nchecks' = nchecks + 1
        /\ rate_limit_data' = IF sweep THEN CleanupRateLimitData(data1, t) ELSE data1
        /\ last_cleanup' = IF sweep THEN t ELSE last_cleanup
        /\ admitted' = [u \in Users |-> [lt \in LimitTypes |->
                          LET a == Since(admitted[u][lt], t - WindowSize)
                          IN  IF u = user_id /\ lt = cat /\ ok THEN Append(a, t) ELSE a]]
        /\ UNCHANGED lastCheck
        /\ capcall' = [name |-> name, user |-> user_id, consulted |-> cat,
                       admitted |-> ok,
                       provider |-> ok /\ CallsProvider(name),
                       output |-> IF ok THEN "result" ELSE "RATE_LIMIT"]


CapInit ==
    capcall = [name |-> "none", user |-> "none", consulted |-> "none", admitted |-> FALSE,
               provider |-> FALSE, output |-> "none"]


(***************************************************************************)
(* Part 5.  What handle_openai_message sends to the client for an upstream  *)
(* event (backend/realtime_proxy.py, lines 251-268 and 398-409), and what   *)
(* a faulty frame does to the loop of _listen_to_openai (lines 592-632).    *)
(***************************************************************************)

\* number of upstream events handled
MaxFrames == 3

\* lines 256-262
essential_messages ==
    {"session.created", "session.updated", "system",
     "response.created", "response.done", "error",
     "response.audio.delta", "response.audio.done",
     "response.output_item.added", "conversation.item.created",
     "input_audio_buffer.speech_started", "input_audio_buffer.committed"}

\* the kinds the upstream sends in this model: forwarded ones, the ones
\* handle_openai_message has a branch for (lines 368-396) and one it ignores
UpstreamKinds ==
    {"session.updated", "response.done", "response.audio.delta", "error",
     "input_audio_buffer.speech_started", "response.output_item.added",
     "conversation.item.input_audio_transcription.completed",
     "response.function_call_arguments.delta",
     "response.function_call_arguments.done", "rate_limits.updated"}

\* "if message_type in essential_messages and self.client_ws" (line 264)
ForwardsToClient(message_type) == message_type \in essential_messages

\* the proxy's own event after session.updated (lines 400-409)
SessionReady(message_type) == message_type = "session.updated"

FwdInit == up_kinds = <<>> /\ fwd_kinds = <<>> /\ listening = TRUE /\ faults = <<>>

\* the faults of one received frame: the text is not JSON (json.loads, line
\* 595), the object has no "type" (message_data.get("type") is None, line 253),
\* the send to the client raises (lines 264-268)
FrameFaults == {"unparseable", "no_type", "send_fails"}

\* the exception a faulty frame raises out of handle_openai_message or of the
\* loop body: json.loads raises JSONDecodeError (line 595); None reaches
\* "message_type.startswith(...)" after every "==" branch was false (line 391)
\* and raises AttributeError; a failed send is caught where it is made (267)
RaisedByFrame(fault) ==
    CASE fault = "unparseable" -> "JSONDecodeError"
      [] fault = "no_type" -> "AttributeError"
      [] fault = "send_fails" -> "none"

\* "except Exception as e: print(...); break" (lines 630-632): any exception
\* other than ConnectionClosed ends the loop
ListenerSurvives(raised) == raised = "none"

\* handle_openai_message: the event is sent to the client as it is when its kind
\* is essential (lines 264-268); session.updated is followed by a "system" event
\* made by the proxy, which belongs to no frame (frame 0)
HandleOpenAIMessage(message_type) ==
    /\ UNCHANGED <<rateVars, bridgeVars, sessVars, capVars, truncVars, cacheVars>>
    /\ listening
    /\ Len(up_kinds) + Len(faults) < MaxFrames
    /\ up_kinds' = Append(up_kinds, message_type)
    /\ UNCHANGED <<listening, faults>>
    /\ LET n == Len(up_kinds) + 1
           verbatim == IF ForwardsToClient(message_type)
                       THEN <<[type |-> message_type, frame |-> n]>>
                       ELSE <<>>
           ready == IF SessionReady(message_type)
                    THEN <<[type |-> "system", frame |-> 0]>>
                    ELSE <<>>
       IN  fwd_kinds' = fwd_kinds \o verbatim \o ready

\* one turn of the loop of _listen_to_openai on a faulty frame (lines 593-610,
\* 630-632): nothing is sent to the client for it, and the loop goes on only
\* when nothing was raised
ListenerGetsFaultyFrame(fault) ==
    /\ UNCHANGED <<rateVars, bridgeVars, sessVars, capVars, truncVars, cacheVars>>
    /\ listening
    /\ Len(up_kinds) + Len(faults) < MaxFrames
    /\ faults' = Append(faults, [fault |-> fault, raised |-> RaisedByFrame(fault),
                                 frame |-> Len(up_kinds) + Len(faults) + 1])
    /\ listening' = ListenerSurvives(RaisedByFrame(fault))
    /\ UNCHANGED <<up_kinds, fwd_kinds>>


(***************************************************************************)
(* Part 6.  truncate_large_result (backend/main.py, lines 219-257).         *)
(* Python strings are TLA+ strings; json.dumps is computed character by     *)
(* character with its default separators and escapes.  A payload is a       *)
(* string or a search result {'messages': [...], 'resultSizeEstimate': n}   *)
(* whose messages are records of strings.                                   *)
(***************************************************************************)

\* bounds of the payloads: length of a string payload, number of messages, and
\* the small budget tried besides MAX_FUNCTION_RESULT_SIZE
MaxStrLen == 2
MaxItems == 50
SmallBudget == 4

\* MAX_FUNCTION_RESULT_SIZE (main.py 73), passed as 4000 by _execute_function
MAX_FUNCTION_RESULT_SIZE == 4000
\* the lengths kept of a body and of a snippet (lines 238-242)
BodyKeep == 500
SnippetKeep == 200

Min(a, b) == IF a <= b THEN a ELSE b

\* s * n
RECURSIVE Rep(_, _)
Rep(s, n) ==
    IF n = 0 THEN ""
    ELSE IF n % 2 = 0 THEN Rep(s \o s, n \div 2)
         ELSE s \o Rep(s \o s, n \div 2)

\* s[:n]
Prefix(s, n) == SubSeq(s, 1, Min(n, Len(s)))

\* str(n) of a natural number
RECURSIVE Decimal(_)
Decimal(n) ==
    IF n < 10 THEN SubSeq("0123456789", n + 1, n + 1)
    ELSE Decimal(n \div 10) \o SubSeq("0123456789", (n % 10) + 1, (n % 10) + 1)

\* json.dumps of a string: the quote and the backslash are escaped
EscapeChar(c) == IF c = "\"" THEN "\\\"" ELSE IF c = "\\" THEN "\\\\" ELSE c

RECURSIVE JsonEscape(_)
JsonEscape(s) ==
    IF Len(s) = 0 THEN ""
    ELSE IF Len(s) = 1 THEN EscapeChar(s)
         ELSE LET h == Len(s) \div 2
              IN  JsonEscape(SubSeq(s, 1, h)) \o JsonEscape(SubSeq(s, h + 1, Len(s)))

JsonString(s) == "\"" \o JsonEscape(s) \o "\""

\* json.dumps of a message record, keys in insertion order (lines 404-422)
JsonMessage(msg) ==
    "{\"id\": " \o JsonString(msg.id)
        \o ", \"subject\": " \o JsonString(msg.subject)
        \o ", \"snippet\": " \o JsonString(msg.snippet)
        \o ", \"body\": " \o JsonString(msg.body) \o "}"

RECURSIVE JsonItems(_)
JsonItems(messages) ==
    IF messages = <<>> THEN ""
    ELSE IF Len(messages) = 1 THEN JsonMessage(messages[1])
         ELSE JsonMessage(Head(messages)) \o ", " \o JsonItems(Tail(messages))

JsonList(messages) == "[" \o JsonItems(messages) \o "]"

\* json.dumps({'messages': truncated_messages}) of line 247
JsonMessagesOnly(messages) == "{\"messages\": " \o JsonList(messages) \o "}"

StrPayload(s) == [type |-> "str", s |-> s, messages |-> <<>>, resultSizeEstimate |-> 0]
\* the result of search_messages (lines 433-437)
SearchPayload(messages) ==
    [type |-> "dict", s |-> "", messages |-> messages,
     resultSizeEstimate |-> Len(messages)]

\* json.dumps(result, default=str)
JsonDumps(result) ==
    IF result.type = "str" THEN JsonString(result.s)
    ELSE "{\"messages\": " \o JsonList(result.messages)
             \o ", \"resultSizeEstimate\": " \o Decimal(result.resultSizeEstimate) \o "}"

\* lines 236-242: the copy of a message with its body and its snippet cut
TruncateMessage(msg) ==
    [msg EXCEPT !.body = IF Len(@) > BodyKeep
                         THEN Prefix(@, BodyKeep) \o "... (truncated)" ELSE @,
                !.snippet = IF Len(@) > SnippetKeep
                            THEN Prefix(@, SnippetKeep) \o "..." ELSE @]

\* "if current_size > max_size * 0.8: break" (lines 247-249), in tenths
OverHeadroom(current_size, budget) == current_size * 10 > budget * 8

\* the loop of lines 234-249: the message is appended, then the size is tested
RECURSIVE TruncatedMessages(_, _, _)
TruncatedMessages(messages, truncated_messages, budget) ==
    IF messages = <<>> THEN truncated_messages
    ELSE LET appended == Append(truncated_messages, TruncateMessage(Head(messages)))
         IN  IF OverHeadroom(Len(JsonMessagesOnly(appended)), budget)
             THEN appended
             ELSE TruncatedMessages(Tail(messages), appended, budget)

SizeMarker == "... (truncated for size)"

\* lines 226-251: the serialization after the structural truncation
Structural(result, budget) ==
    IF result.type = "dict"
    THEN JsonDumps([result EXCEPT
                       !.messages = TruncatedMessages(result.messages, <<>>, budget)])
    ELSE JsonDumps(result)

\* truncate_large_result(result, max_size)
truncate_large_result(result, budget) ==
    IF Len(JsonDumps(result)) <= budget THEN JsonDumps(result)
    ELSE LET result_str == Structural(result, budget)
         IN  IF Len(result_str) > budget
             THEN Prefix(result_str, budget) \o SizeMarker
             ELSE result_str

\* the payloads tried: every string of at most MaxStrLen characters of the
\* alphabet, and lists of equal messages that differ in their id
Alphabet == {"a", "\"", "\\"}

RECURSIVE StringsOfLen(_)
StringsOfLen(n) ==
    IF n = 0 THEN {""}
    ELSE {s \o c : s \in StringsOfLen(n - 1), c \in Alphabet}

StringPayloads == {StrPayload(s) : s \in UNION {StringsOfLen(n) : n \in 0..MaxStrLen}}

ItemCounts == {1, 4, MaxItems}
SubjectLens == {40, 240}
SnippetLens == {100, 300}
BodyLens == {0, 600, 2000}

Messages(n, subject, snippet, body) ==
    [i \in 1..n |-> [id |-> "msg" \o Decimal(i), subject |-> Rep("s", subject),
                     snippet |-> Rep("n", snippet), body |-> Rep("b", body)]]

SearchPayloads ==
    {SearchPayload(Messages(n, subject, snippet, body)) :
        n \in ItemCounts, subject \in SubjectLens, snippet \in SnippetLens,
        body \in BodyLens}

Budgets == {SmallBudget, MAX_FUNCTION_RESULT_SIZE}


(***************************************************************************)
(* Part 7.  The SQLite cache (backend/main.py, lines 277-324): cache_get,   *)
(* cache_set.  time.time() is a clock of TicksPerSecond ticks a second, so  *)
(* that int(time.time()) loses something; the TTLs and the row counts are   *)
(* scaled down from 300 s, 10 s, 1000 rows and 100 rows, keeping their      *)
(* order.  A call is one step: the table is read and written through the    *)
(* statements of one call.                                                  *)
(***************************************************************************)

\* bounds of the cache model
TicksPerSecond == 2
MaxTick == 6
MaxTickStep == 2
MaxCacheOps == 4
\* scaled stand-ins of CACHE_EXPIRY_SECONDS (300) and of the 10 s of count_unread_emails
CacheExpirySeconds == 2
UnreadExpirySeconds == 1
\* scaled stand-ins of the 1000 rows and of the 100 rows of cache_set
CacheMaxRows == 2
CacheEvictRows == 1

\* the keys the capabilities use (main.py 381, 784) and the custom_expiry each
\* call site passes to cache_get (0 stands for None)
CacheKeys == {"search:is:unread:10", "count_unread"}
CustomExpiry(key) == IF key = "count_unread" THEN UnreadExpirySeconds ELSE 0

\* f"{user_id}:{key}"
CacheKey(user_id, key) == user_id \o ":" \o key

\* "expiry = custom_expiry or CACHE_EXPIRY_SECONDS"
Expiry(custom_expiry) == IF custom_expiry # 0 THEN custom_expiry ELSE CacheExpirySeconds

\* int(time.time())
IntSeconds(t) == t \div TicksPerSecond

\* "if time.time() - cached_at < expiry", in ticks
NotExpiredEver(t, cached_at, expiry) == TRUE
NotExpired(t, cached_at, expiry) ==
    t - cached_at * TicksPerSecond < expiry * TicksPerSecond

\* "if count > 1000"
OverRowLimitNever(count) == FALSE
OverRowLimit(count) == count > CacheMaxRows

SelectsAnyRow(k, row, cache_key, user_id) == TRUE
\* "WHERE cache_key = ? AND user_id = ?" with (f"{user_id}:{key}", user_id)
Selects(k, row, cache_key, user_id) == k = cache_key /\ row.user_id = user_id

NoGet == [user |-> "none", key |-> "none", expiry |-> 0, hit |-> FALSE, data |-> 0,
          age |-> 0, writer |-> "none", wkey |-> "none"]
NoSet == [user |-> "none", key |-> "none", deleted |-> {}, newest_deleted |-> 0]

CacheInit ==
    /\ tick = 0
    /\ message_cache = [k \in {} |-> 0]
    /\ lastGet = NoGet
    /\ lastSet = NoSet
    /\ nops = 0

\* cache_get(user_id, key, custom_expiry), dt ticks after the last call: the row of
\* the key and the user is returned when it has not expired
CacheGet(user_id, key, dt) ==
    LET t == tick + dt
        cache_key == CacheKey(user_id, key)
        expiry == Expiry(CustomExpiry(key))
        selected == {k \in DOMAIN message_cache :
                        Selects(k, message_cache[k], cache_key, user_id)}
        found == selected # {}
        row == message_cache[CHOOSE k \in selected : TRUE]
        hit == found /\ NotExpired(t, row.cached_at, expiry)
    IN  /\ UNCHANGED <<rateVars, bridgeVars, sessVars, capVars, fwdVars, truncVars>>
        /\ t <= MaxTick
        /\ nops < MaxCacheOps
        /\ tick' = t
        /\ nops' = nops + 1
        /\ lastGet' = [user |-> user_id, key |-> key, expiry |-> expiry, hit |-> hit,
                       data |-> IF hit THEN row.data ELSE 0,
                       age |-> IF hit THEN t - row.written ELSE 0,
                       writer |-> IF hit THEN row.user_id ELSE "none",
                       wkey |-> IF hit THEN row.key ELSE "none"]
        /\ UNCHANGED <<message_cache, lastSet>>

\* the rows "ORDER BY cached_at LIMIT n" may select: n rows none of which is newer
\* than a row left; rows of one second come in any order
OldestRows(rows, n) ==
    {D \in SUBSET DOMAIN rows :
        /\ Cardinality(D) = Min(n, Cardinality(DOMAIN rows))
        /\ \A d \in D, k \in (DOMAIN rows) \ D : rows[d].cached_at <= rows[k].cached_at}

\* cache_set(user_id, key, data), dt ticks after the last call: INSERT OR REPLACE
\* with cached_at = int(time.time()), then the oldest rows are deleted when the
\* table has more than the row limit.  The data written is the number of the call;
\* written and key are ghosts, the tick of the write and its key argument.
CacheSet(user_id, key, dt) ==
    LET t == tick + dt
        cache_key == CacheKey(user_id, key)
        row == [user_id |-> user_id, data |-> nops + 1, cached_at |-> IntSeconds(t),
                written |-> t, key |-> key]
        inserted == [k \in (DOMAIN message_cache) \cup {cache_key} |->
                        IF k = cache_key THEN row ELSE message_cache[k]]
    IN  /\ UNCHANGED <<rateVars, bridgeVars, sessVars, capVars, fwdVars, truncVars>>
        /\ t <= MaxTick
        /\ nops < MaxCacheOps
        /\ tick' = t
        /\ nops' = nops + 1
        /\ IF OverRowLimit(Cardinality(DOMAIN inserted))
           THEN \E D \in OldestRows(inserted, CacheEvictRows) :
                    /\ message_cache' = [k \in (DOMAIN inserted) \ D |-> inserted[k]]
                    /\ lastSet' = [user |-> user_id, key |-> key, deleted |-> D,
                                   newest_deleted |->
                                       CHOOSE c \in {inserted[d].cached_at : d \in D} :
                                           \A d \in D : inserted[d].cached_at <= c]
           ELSE /\ message_cache' = inserted
                /\ lastSet' = [user |-> user_id, key |-> key, deleted |-> {},
                               newest_deleted |-> 0]
        /\ UNCHANGED lastGet

\* no payload is being bounded
TruncIdle ==
    /\ payload = StrPayload("")
    /\ max_size = MAX_FUNCTION_RESULT_SIZE
    /\ bounded = ""
    /\ kept_msgs = <<>>
    /\ rebounded = ""
    /\ tpc = "idle"

TruncInit ==
    /\ payload \in StringPayloads \cup SearchPayloads
    /\ max_size \in Budgets
    /\ bounded = ""
    /\ kept_msgs = <<>>
    /\ rebounded = ""
    /\ tpc = "new"

\* _execute_function line 497: result_str = truncate_large_result(result, 4000)
Bound ==
    /\ UNCHANGED <<rateVars, bridgeVars, sessVars, capVars, fwdVars, cacheVars>>
    /\ tpc = "new"
    /\ bounded' = truncate_large_result(payload, max_size)
    /\ kept_msgs' = IF payload.type = "dict" /\ Len(JsonDumps(payload)) > max_size
                    THEN TruncatedMessages(payload.messages, <<>>, max_size)
                    ELSE <<>>
    /\ tpc' = "bounded"
    /\ UNCHANGED <<payload, max_size, rebounded>>

\* the returned string is bounded again with the same budget
BoundAgain ==
    /\ UNCHANGED <<rateVars, bridgeVars, sessVars, capVars, fwdVars, cacheVars>>
    /\ tpc = "bounded"
    /\ rebounded' = truncate_large_result(StrPayload(bounded), max_size)
    /\ tpc' = "rebounded"
    /\ UNCHANGED <<payload, max_size, bounded, kept_msgs>>

Init == RateInit /\ BridgeInit /\ SessInit /\ CapInit /\ FwdInit /\ TruncIdle /\ CacheInit

NextRate ==
    \/ \E u \in Users, lt \in LimitTypes, dt \in 0..MaxStep :
          CheckRateLimit(u, lt, dt)
    \/ \E dt \in 0..MaxStep : CleanupMemoryUsage(dt)

SpecRate == Init /\ [][NextRate]_vars

ListenerStep ==
    \/ ListenerRecv
    \/ ListenerRecvClosed
    \/ \E outcome \in Outcomes : CapabilityReturns(outcome)
    \/ AfterSendResult
    \/ AfterSendCreate
    \/ \E connected \in BOOLEAN : Reconnect(connected)
    \/ BackoffDone

Next ==
    \/ \E connected \in BOOLEAN : StartProxy(connected)
    \/ \E name \in FunctionNames, arguments \in ArgStrings :
          UpstreamEmitsCall(name, arguments)
    \/ \E k \in 0..MaxUpstream : UpstreamEmitsDone(k)
    \/ \E n \in 1..MaxUpstream : UpstreamEchoesItem(n)
    \/ UpstreamCloses
    \/ ListenerRecv
    \/ ListenerRecvClosed
    \/ \E outcome \in Outcomes : CapabilityReturns(outcome)
    \/ AfterSendResult
    \/ AfterSendCreate
    \/ TimerFires
    \/ \E connected \in BOOLEAN : Reconnect(connected)
    \/ BackoffDone

Spec == Init /\ [][Next]_vars

\* the proxy with its client: the upstream asks for a registered capability only
\* and echoes no items
NextClient ==
    \/ \E connected \in BOOLEAN : StartProxy(connected)
    \/ \E arguments \in ArgStrings : UpstreamEmitsCall("search_messages", arguments)
    \/ \E k \in 0..MaxUpstream : UpstreamEmitsDone(k)
    \/ UpstreamCloses
    \/ ListenerStep
    \/ TimerFires
    \/ \E kind \in ClientKinds : ClientMessage(kind)
    \/ AfterSendCommit
    \/ \E kind \in DirectKinds : DirectMessage(kind)
    \/ ClientGoesAway

SpecClient == Init /\ [][NextClient]_vars

\* the asyncio loop runs every task that can run: the listener goes on after each
\* await and every armed timer ends its sleep; the upstream owes nothing
FairSpec ==
    /\ Spec
    /\ WF_vars(ListenerStep)
    /\ WF_vars(TimerFires)

\* the proxy with its client under the asyncio loop: the listener, the timers and a
\* client handler between its two sends go on; the client and the upstream owe
\* nothing
FairSpecClient ==
    /\ SpecClient
    /\ WF_vars(ListenerStep)
    /\ WF_vars(TimerFires)
    /\ WF_vars(AfterSendCommit)

NextSess ==
    \/ \E session_id \in SessionIds : Login(session_id)
    \/ \E session_id \in SessionIds : Logout(session_id)
    \/ \E c \in Conns, session_id \in SessionIds : Enter(c, session_id)
    \/ \E c \in Conns : AfterCloseOld(c)
    \/ \E c \in Conns : AfterCleanOld(c)
    \/ \E c \in Conns, connected \in BOOLEAN : ConnectDone(c, connected)
    \/ \E c \in Conns : ReceiveRaises(c)
    \/ \E c \in Conns : ClientSends(c)
    \/ \E c \in Conns : AfterFinallyCleanup(c)
    \/ \E c \in Conns : ClientDisconnects(c)
    \/ \E p \in Conns : LinkCloses(p)
    \/ \E p \in Conns : ListenerSeesClosed(p)
    \/ \E p \in Conns, connected \in BOOLEAN : ListenerReconnects(p, connected)

SpecSess == Init /\ [][NextSess]_vars

NextTrunc == Bound \/ BoundAgain

\* truncate_large_result on every payload and budget of the bounds
InitTrunc ==
    RateInit /\ BridgeInit /\ SessInit /\ CapInit /\ FwdInit /\ TruncInit /\ CacheInit

SpecTrunc == InitTrunc /\ [][NextTrunc]_vars

NextCache ==
    \/ \E u \in Users, key \in CacheKeys, dt \in 0..MaxTickStep : CacheGet(u, key, dt)
    \/ \E u \in Users, key \in CacheKeys, dt \in 0..MaxTickStep : CacheSet(u, key, dt)

SpecCache == Init /\ [][NextCache]_vars

NextFwd ==
    \/ \E message_type \in UpstreamKinds : HandleOpenAIMessage(message_type)
    \/ \E fault \in FrameFaults : ListenerGetsFaultyFrame(fault)

SpecFwd == Init /\ [][NextFwd]_vars

NextCap ==
    \E u \in Users, name \in CapNames, dt \in 0..MaxStep : InvokeCapability(u, name, dt)

SpecCap == Init /\ [][NextCap]_vars

\* C1: each identity has at most one session whose client connection and upstream
\* link are both open, and once a replacing session is set up the connection and the
\* proxy link it replaced are closed.
Live(c) == ws[c] = "open" /\ link[c] = "open"

SetUp(c) == wpc[c] \in {"loop", "direct"}

C1_OneActiveSession ==
    /\ \A c1, c2 \in Conns :
          (c1 # c2 /\ cuser[c1] = cuser[c2] /\ Live(c1)) => ~Live(c2)
    /\ \A c \in Conns :
          SetUp(c) =>
             /\ replaced[c].ws # 0 => ws[replaced[c].ws] # "open"
             /\ replaced[c].proxy # 0 => link[replaced[c].proxy] # "open"

\* C2: in every rolling window of width WindowSize the admitted calls of an
\* identity and category never exceed the ceiling, and a call is admitted
\* whenever fewer than the ceiling admitted timestamps lie in the trailing window.
C2_RollingWindowCeiling ==
    /\ \A u \in Users, lt \in LimitTypes :
          Len(Since(admitted[u][lt], now - WindowSize)) <= LimitPerMinute(lt)
    /\ lastCheck.user # "none" =>
          (lastCheck.result <=> lastCheck.inWindowBefore < LimitPerMinute(lastCheck.limit_type))

\* after a burst was cut off at the ceiling, a call is admitted only because an
\* earlier timestamp slid out of the window
C2_Witness ==
    /\ lastCheck.user # "none"
    /\ lastCheck.result
    /\ lastCheck.afterReject
    /\ lastCheck.evicted > 0
    /\ lastCheck.inWindowBefore = LimitPerMinute(lastCheck.limit_type) - 1


(***************************************************************************)
(* Claims about the bridge.                                                 *)
(***************************************************************************)

Finished(n) == calls[n].state = "done"

HasOutput(n) ==
    \E i \in 1..Len(sent_up) :
        sent_up[i].type = "function_call_output" /\ sent_up[i].call = n

\* the function output of call n is followed by a continuation request for it
OutputThenCreate(n) ==
    \E i, j \in 1..Len(sent_up) :
        /\ i < j
        /\ sent_up[i].type = "function_call_output" /\ sent_up[i].call = n
        /\ sent_up[j].type = "response.create" /\ sent_up[j].call = n

\* continuation k was requested and has neither completed nor timed out
Outstanding(k) == ~conts[k].doneSeen /\ ~conts[k].fired

\* C3: emergency timeout: when the timer of a continuation ends and no
\* response.done was observed since the request, the flag was cleared exactly
\* once and exactly one timeout error was sent to the client.
C3_TimeoutExactlyOnce ==
    \A k \in 1..Len(conts) :
        (conts[k].fired /\ ~conts[k].anyDoneBeforeFire) =>
            (conts[k].clears = 1 /\ conts[k].errsFor = 1)

\* C4: whenever the pending-response flag is set it is eventually cleared.
C4_PendingEventuallyCleared == pending_audio_response ~> ~pending_audio_response

\* the flag was set, the upstream never completed the continuation, and the
\* emergency timer cleared the flag
C4_Witness ==
    /\ ~pending_audio_response
    /\ \E k \in 1..Len(conts) :
          conts[k].fired /\ conts[k].errs = 1 /\ ~conts[k].anyDoneBeforeFire

\* C5: every function call whose output was emitted gets exactly one
\* continuation request, and at most one bridge-issued continuation request is
\* outstanding at any time.
C5_OneContinuationPerCall ==
    /\ \A n \in 1..Len(calls) : (Finished(n) /\ HasOutput(n)) => calls[n].creates = 1
    /\ Cardinality({k \in 1..Len(conts) : Outstanding(k)}) <= 1

\* C6: a function call that arrives while the flag is set causes no
\* continuation request.
C6_DuplicateIgnored ==
    \A n \in 1..Len(calls) : calls[n].arrivedPending => calls[n].creates = 0

\* C7: a completed function call with an unknown name gets a function-output
\* event (an error result) for its call.
C7_UnknownNameAnswered ==
    \A n \in 1..Len(calls) :
        (Finished(n) /\ calls[n].name \notin GMAIL_FUNCTIONS) => HasOutput(n)

\* C8: a function call with malformed argument JSON gets an error output
\* followed by the continuation request, and the flag is clear when the
\* function-call cycle ends.
C8_MalformedArgumentsAnswered ==
    \A n \in 1..Len(calls) :
        (Finished(n) /\ JsonLoadsFails(calls[n].arguments) /\ ~calls[n].escaped) =>
            /\ calls[n].output = "error"
            /\ OutputThenCreate(n)
            /\ ~calls[n].pendingAtEnd

\* C9: a typed capability error never leaves _execute_function as an exception
\* into the receive loop, also when the send of the error result fails, and the
\* listener is not stopped by it.
C9_TypedErrorContained ==
    \A n \in 1..Len(calls) :
        (Finished(n) /\ calls[n].outcome \in TypedErrors) =>
            (~calls[n].escaped /\ lpc # "stopped")

QuotaCallDone == \E n \in 1..Len(calls) : Finished(n) /\ calls[n].outcome = "QUOTA"

ClientHasQuotaError ==
    \E i \in 1..Len(sent_client) :
        sent_client[i].type \in {"function_result", "error"} /\ sent_client[i].code = "QUOTA"

\* C10: after a function call whose capability raised QUOTA the client
\* eventually receives a function-result/error event carrying the QUOTA code.
C10_QuotaReachesClient == QuotaCallDone ~> ClientHasQuotaError

(***************************************************************************)
(* Claims about the capabilities.                                           *)
(***************************************************************************)

\* C11: a capability invoked through the bridge calls the provider only after
\* the rate limiter was asked for the identity, and a denied call does not
\* reach the provider and yields the rate-limit error result.
C11_LimiterBeforeProvider ==
    capcall.name # "none" =>
        /\ capcall.provider => capcall.consulted # "none"
        /\ ~capcall.admitted => (~capcall.provider /\ capcall.output = "RATE_LIMIT")

(***************************************************************************)
(* Claims about the listener and the timers.                                *)
(***************************************************************************)

\* C12: when the listener gives up with the upstream unreachable it has made
\* MaxRetries reconnection attempts, and after the i-th failed attempt it
\* waited 2^i seconds.
C12_ThreeAttemptsWithBackoff ==
    lpc = "stopped" =>
        /\ gh.attempts = MaxRetries
        /\ gh.sleeps = [i \in 1..MaxRetries |-> 2 ^ i]

\* C15: the retry counter is the number of closures since the last frame was
\* received: a frame resets it, closures with no frame in between add up.
C15_CounterResetByFrame == retry_count = gh.closedNoFrame

\* C17: the timer of a continuation that completed is cancelled: when every
\* earlier continuation has completed, the flag of a later call is not cleared,
\* and no timeout error is sent for it, before its own timer ends.
C17_TimerOnlyForOwnContinuation ==
    \A j \in 1..Len(conts) :
        (conts[j].errsFor > 0 /\ \A k \in 1..(j - 1) : conts[k].doneSeen) => conts[j].fired

(***************************************************************************)
(* Claims about the proxy and its client.                                   *)
(***************************************************************************)

OnLink(l) == SelectSeq(sent_up, LAMBDA e : e.link = l)

\* C13: on every upstream link that was opened, by start_proxy or by a
\* reconnection, exactly one session.update was sent and it is the first event
\* sent on that link.
C13_SessionUpdateFirst ==
    \A l \in 1..linkno :
        /\ OnLink(l) # <<>>
        /\ OnLink(l)[1].type = "session.update"
        /\ Cardinality({i \in 1..Len(OnLink(l)) : OnLink(l)[i].type = "session.update"}) = 1

\* a reconnected link carries the configuration, then a client event and a
\* function output
C13_Witness ==
    /\ linkno >= 2
    /\ \E i, j \in 1..Len(sent_up) :
          /\ sent_up[i].link = linkno /\ sent_up[i].kind = "client"
          /\ sent_up[j].link = linkno /\ sent_up[j].type = "function_call_output"

\* C14: once the listener has given up reconnecting, the session is closed: the
\* client handler leaves its loop and runs its finally block (proxy cleanup, the
\* registry entries deleted).
C14_ExhaustionClosesSession == (lpc = "stopped") ~> (hpc = "closed")

\* C16: once the handler of the session has run its finally block the upstream
\* link is not open and no emergency timer of the session changes the flag.
C16_ClosedIsQuiet == hpc = "closed" => (openai_ws # "open" /\ ~gh.lateTimer)

\* C18: an event sent upstream for a client message comes from a message of an
\* allowlisted kind and is that message unchanged.
C18_OnlyAllowlistedForwarded ==
    \A i \in 1..Len(sent_up) :
        sent_up[i].from # "proxy" =>
            (sent_up[i].from \in ClientAllowlist /\ sent_up[i].type = sent_up[i].from)

\* the kinds the allowlist names, read widely: session lifecycle, response
\* lifecycle (with the items of a response), audio deltas, error,
\* transcript-completed, speech-started and committed
C20_Allowlist ==
    {"session.created", "session.updated",
     "response.created", "response.done", "response.output_item.added",
     "conversation.item.created",
     "response.audio.delta", "response.audio.done", "error",
     "conversation.item.input_audio_transcription.completed",
     "input_audio_buffer.speech_started", "input_audio_buffer.committed"}

SentVerbatim(i) ==
    \E j \in 1..Len(fwd_kinds) : fwd_kinds[j].frame = i /\ fwd_kinds[j].type = up_kinds[i]

\* C20: an upstream event is sent to the client as it is if and only if its kind
\* is in the allowlist; function-call argument deltas and completions never are.
C20_ForwardedIffAllowlisted ==
    \A i \in 1..Len(up_kinds) :
        /\ SentVerbatim(i) <=> up_kinds[i] \in C20_Allowlist
        /\ up_kinds[i] \in {"response.function_call_arguments.delta",
                            "response.function_call_arguments.done"} => ~SentVerbatim(i)

\* the longest string truncate_large_result may return for a budget
BoundFor(budget) == budget + Len(SizeMarker)

\* C21: the returned string is at most the budget plus the marker long, and
\* bounding the returned string again with the same budget returns it unchanged.
C21_BoundedAndIdempotent ==
    /\ tpc \in {"bounded", "rebounded"} => Len(bounded) <= BoundFor(max_size)
    /\ tpc = "rebounded" => rebounded = bounded

\* the payload was a collection of message records over the budget
StructurallyTruncated ==
    /\ tpc \in {"bounded", "rebounded"}
    /\ payload.type = "dict"
    /\ Len(JsonDumps(payload)) > max_size

\* the first item, once its fields are cut, is within the headroom by itself
FirstItemFits ==
    /\ payload.messages # <<>>
    /\ ~OverHeadroom(Len(JsonMessagesOnly(<<TruncateMessage(payload.messages[1])>>)),
                     max_size)

\* C22: the kept items are a prefix of the item list with body and snippet cut to
\* 500 and 200 characters (plus their markers), and the serialized kept items
\* do not exceed 0.8 * max_size: the item that crosses the headroom is left out.
C22_KeptItemsWithinHeadroom ==
    (StructurallyTruncated /\ FirstItemFits) =>
        /\ Len(kept_msgs) <= Len(payload.messages)
        /\ \A i \in 1..Len(kept_msgs) :
              /\ kept_msgs[i] = TruncateMessage(payload.messages[i])
              /\ Len(kept_msgs[i].body) <= BodyKeep + Len("... (truncated)")
              /\ Len(kept_msgs[i].snippet) <= SnippetKeep + Len("...")
        /\ ~OverHeadroom(Len(JsonMessagesOnly(kept_msgs)), max_size)

\* the string ends with the marker of the hard cut, so it is no JSON document
HardCut(result_str) ==
    /\ Len(result_str) >= Len(SizeMarker)
    /\ SubSeq(result_str, Len(result_str) - Len(SizeMarker) + 1, Len(result_str)) = SizeMarker

\* C23: a collection of message records bounded to 4000 bytes is returned as a
\* complete JSON document within the budget: the hard cut is not applied.
C23_SearchResultStaysJson ==
    (tpc \in {"bounded", "rebounded"} /\ payload.type = "dict"
        /\ max_size = MAX_FUNCTION_RESULT_SIZE) =>
        /\ Len(bounded) <= max_size
        /\ ~HardCut(bounded)

\* C24: a value is returned by cache_get only if less than the TTL of that read
\* has passed since the value was written.
C24_NeverServedPastTTL ==
    lastGet.hit => lastGet.age < lastGet.expiry * TicksPerSecond

\* a value is served one tick before its TTL ends, for the short TTL of the unread
\* count
C24_Witness ==
    /\ lastGet.hit
    /\ lastGet.key = "count_unread"
    /\ lastGet.age = lastGet.expiry * TicksPerSecond - 1

InWindow(data, u, lt, t) == Since(UserLimits(data, u)[lt], WindowCutoff(t))

\* C26: the sweep runs only when the interval has passed since the last one; a
\* cleanup_memory_usage step removes only identities whose windows are all empty,
\* leaves every timestamp that is within the window of its category, and changes
\* the outcome of no later check_rate_limit.
C26_SweepAmortizedAndHarmless ==
    [][/\ last_cleanup' # last_cleanup => last_cleanup' - last_cleanup >= CleanupInterval
       /\ nchecks' = nchecks =>
             /\ \A u \in (DOMAIN rate_limit_data) \ (DOMAIN rate_limit_data') :
                   \A lt \in LimitTypes : InWindow(rate_limit_data, u, lt, now') = <<>>
             /\ \A u \in Users, lt \in LimitTypes :
                   InWindow(rate_limit_data', u, lt, now') = InWindow(rate_limit_data, u, lt, now')
             /\ \A u \in Users, lt \in LimitTypes, t \in now'..MaxTime :
                   CheckResult(rate_limit_data', u, lt, t)
                       = CheckResult(rate_limit_data, u, lt, t)]_vars

\* the sweep has run: it removed the identity of the last check, whose calls had
\* left the doubled window, and kept another identity
C26_Witness ==
    /\ last_cleanup > 0
    /\ last_cleanup = now
    /\ lastCheck.user \in Users
    /\ lastCheck.user \notin DOMAIN rate_limit_data
    /\ DOMAIN rate_limit_data # {}

\* C27: the handler of the client never ends because a client message was
\* forwarded while the upstream link was closed: the message is lost and the
\* client loop goes on.
C27_SendOnClosedLinkHarmless == gh.endedBy # "send"

\* C28: while a capability call is in flight and an upstream frame has arrived,
\* the receive loop can take the frame: recv() and handle_openai_message can run
\* before the call has ended.
C28_ReceiveLoopNotBlocked ==
    (lpc = "exec" /\ inbox # <<>>) => ENABLED ListenerRecv

\* C29: no handler of a replaced or a replacing session fails in its teardown:
\* closing a closed link and removing a removed registry entry raise nothing.
C29_TeardownRaisesNothing == \A c \in Conns : wpc[c] # "crashed"

Echoes == {i \in 1..Len(sent_client) : sent_client[i].type = "echo"}

\* C30: when the upstream connection could not be established the client got the
\* system notice first, nothing was sent upstream, no capability was executed
\* for the upstream, and the client got one echo for each of its messages that
\* is no function call.
C30_DirectModeEchoOnly ==
    lpc = "not_started" =>
        /\ sent_client # <<>> /\ sent_client[1] = DirectModeNotice
        /\ openai_ws = "none" /\ sent_up = <<>>
        /\ calls = <<>> /\ conts = <<>>
        /\ Cardinality(Echoes) = gh.echoable

\* in the direct mode the client sent two messages and a direct function call
C30_Witness ==
    /\ hpc = "direct"
    /\ gh.echoable = 2
    /\ Cardinality(Echoes) = 2
    /\ \E i \in 1..Len(sent_client) : sent_client[i].type = "function_result"

\* C31: only exhausted reconnection ends the upstream receive loop: after a
\* faulty frame (not JSON, no kind, a failed send to the client) the loop is
\* still receiving.  No reconnection happens in SpecFwd, so there the loop
\* must never end.
C31_FaultyFrameKeepsLoop ==
    faults # <<>> => listening

\* C32: a rejected check_rate_limit records nothing: it returns false, the
\* window it checked keeps exactly its timestamps that have not expired, and
\* every other window of every identity is as it was.
C32_RejectedRecordsNothing ==
    [][(nchecks' = nchecks + 1 /\ ~lastCheck'.result) =>
          /\ DOMAIN rate_limit_data' = DOMAIN rate_limit_data
          /\ \A u \in DOMAIN rate_limit_data : \A lt \in LimitTypes :
                 rate_limit_data'[u][lt] =
                    IF u = lastCheck'.user /\ lt = lastCheck'.limit_type
                    THEN Since(rate_limit_data[u][lt], now' - WindowSize)
                    ELSE rate_limit_data[u][lt]]_vars

\* a call was rejected while another window held timestamps
C32_Witness ==
    /\ lastCheck.user # "none"
    /\ ~lastCheck.result
    /\ Len(rate_limit_data[lastCheck.user][lastCheck.limit_type]) > 0
    /\ \E u \in DOMAIN rate_limit_data : \E lt \in LimitTypes :
          /\ <<u, lt>> # <<lastCheck.user, lastCheck.limit_type>>
          /\ rate_limit_data[u][lt] # <<>>

\* the positions of the continuation requests the bridge issued
BridgeCreates == {i \in 1..Len(sent_up) : sent_up[i].type = "response.create"
                                          /\ sent_up[i].kind = "bridge"}

\* C33: for every call the function output is sent strictly before the
\* continuation request, and an emergency timer is armed exactly when a
\* continuation request is sent: every continuation request the bridge issued
\* has its timer (asleep or ended) once the send has returned, and every timer
\* belongs to one continuation request that was sent.
C33_OutputThenCreateThenTimer ==
    /\ \A i \in BridgeCreates :
          \E j \in 1..(i - 1) : /\ sent_up[j].type = "function_call_output"
                                /\ sent_up[j].call = sent_up[i].call
    /\ Cardinality(BridgeCreates) = Len(conts)
    /\ \A k \in 1..Len(conts) :
          (k < Len(conts) \/ lpc # "sent_create") =>
             (conts[k].fired \/ \E t \in 1..Len(timers) : timers[t] = k)
    /\ \A t \in 1..Len(timers) :
          /\ timers[t] \in 1..Len(conts)
          /\ ~conts[timers[t]].fired
          /\ \A u \in 1..Len(timers) : timers[u] = timers[t] => u = t

\* two continuation requests were sent, the timer of the first has ended and the
\* timer of the second is asleep
C33_Witness ==
    /\ Len(conts) = 2
    /\ conts[1].fired
    /\ timers = <<2>>
    /\ lpc = "recv"

\* the step handles a response.done: of continuation n, or (n = 0) of a
\* response the bridge did not ask for
HandlesResponseDone ==
    /\ lpc = "recv"
    /\ inbox # <<>>
    /\ inbox' = Tail(inbox)
    /\ Head(inbox).type = "response.done"

\* C34: the pending-response flag set for a continuation (the latest one) is
\* not cleared by the response.done of another response: when the handling of
\* a response.done clears the flag, it is the response.done of that
\* continuation.
C34_OtherDoneLeavesFlag ==
    [][(HandlesResponseDone /\ pending_audio_response /\ ~pending_audio_response') =>
          Head(inbox).n = Len(conts)]_vars

\* a response.create was sent upstream after the function output of call n
CreateAfterOutput(n) ==
    \E i \in 1..Len(sent_up) : \E j \in (i + 1)..Len(sent_up) :
        /\ sent_up[i].type = "function_call_output"
        /\ sent_up[i].call = n
        /\ sent_up[j].type = "response.create"

\* the proxy has nothing left to do: the listener waits in recv() for a frame
\* and no timer is asleep
BridgeQuiet == ~ENABLED ListenerStep /\ ~ENABLED TimerFires

\* C35: every function result sent upstream is eventually followed by a
\* continuation request.  Whatever the proxy will ever send without a new
\* frame has been sent once it is quiet, so on a first link that is still open
\* a quiet proxy has sent a response.create after every result it sent, also
\* after the result of a call that ended while the flag was set.
C35_ResultFollowedByCreate ==
    (BridgeQuiet /\ openai_ws = "open" /\ linkno = 1) =>
        \A n \in 1..Len(calls) : calls[n].output = "result" => CreateAfterOutput(n)

\* C36: after cleanup() has closed the upstream link of a session (the finally
\* block of its handler has run) the session opens no new upstream connection:
\* no step of a closed session makes a new link.
C36_NoConnectionAfterCleanup ==
    [][hpc = "closed" => linkno' = linkno]_vars

\* the step runs the finally block of the handler of connection c: its first
\* part up to the await of cleanup(), or its second part after it
TeardownStep(c) ==
    \/ wpc[c] \in {"connecting", "loop", "direct"} /\ wpc'[c] \in {"fin_cleaned", "done"}
    \/ wpc[c] = "fin_cleaned" /\ wpc'[c] \in {"done", "crashed"}

\* connection c was closed by the handler of a newer connection of its user
Replaced(c) == \E d \in Conns : replaced[d].ws = c

\* C37: the finally block of a replaced session touches only its own
\* resources: it closes the upstream link of no other session and removes no
\* registry entry that holds another session.
C37_TeardownOnlyOwnResources ==
    [][\A c \in Conns :
          (Replaced(c) /\ TeardownStep(c)) =>
             /\ \A p \in Conns \ {c} : link'[p] = link[p]
             /\ \A u \in Users :
                   /\ active_proxies[u] # c => active_proxies'[u] = active_proxies[u]
                   /\ active_websockets[u] # c =>
                         active_websockets'[u] = active_websockets[u]]_vars

\* C38: every open client connection whose handler has registered it and has
\* not begun its finally block is the entry of its identity in
\* active_websockets, so that the handler of a later connection of the
\* identity closes it.
C38_OpenConnectionRegistered ==
    \A c \in Conns :
        (ws[c] = "open" /\ wpc[c] \in {"connecting", "loop", "direct"}) =>
            active_websockets[cuser[c]] = c

\* every link the proxy opened was closed with no frame received on it, and
\* every connection attempt was accepted: each closure the listener saw was
\* the closure of another link
EveryLinkClosedAtOnce == gh.closedNoFrame = linkno

\* C39: the listener gives up after at most MaxRetries consecutive closures:
\* when the upstream accepts every connection and closes it before any frame,
\* the listener has stopped once MaxRetries links were closed, instead of
\* connecting again.
C39_GivesUpAfterConsecutiveClosures ==
    (EveryLinkClosedAtOnce /\ gh.closedNoFrame >= MaxRetries) => lpc = "stopped"

\* C40: cache entries are isolated per identity: what cache_get(A, k) returns
\* was written by cache_set(A, k, ...), also while the table holds a row another
\* identity wrote for the same k.
C40_CacheIsolatedPerIdentity ==
    lastGet.hit => (lastGet.writer = lastGet.user /\ lastGet.wkey = lastGet.key)

\* a value is served to one identity while the table holds a row of the other
\* identity for the same key, written later
C40_Witness ==
    /\ lastGet.hit
    /\ \E v \in Users \ {lastGet.user} :
          /\ CacheKey(v, lastGet.key) \in DOMAIN message_cache
          /\ message_cache[CacheKey(v, lastGet.key)].data > lastGet.data

IsCommit(e) == e.kind = "client" /\ e.type = "input_audio_buffer.commit"

ClientPath(e) == e.kind \in {"client", "manual"}

\* the events of the client handler sent after event i
LaterClientPath(i) == {j \in (i + 1)..Len(sent_up) : ClientPath(sent_up[j])}

EarlierClientPath(i) == {j \in 1..(i - 1) : ClientPath(sent_up[j])}

Minimum(S) == CHOOSE x \in S : \A y \in S : x <= y

Maximum(S) == CHOOSE x \in S : \A y \in S : x >= y

\* C19: the next thing the client handler sends after a forwarded commit is the
\* proxy's own response.create, before any later client message, and there is
\* one response.create per commit; only a commit whose handling is under way, or
\* was cut by a closed link, has none yet.
C19_CommitThenResponseCreate ==
    /\ \A i \in 1..Len(sent_up) :
          IsCommit(sent_up[i]) =>
              IF LaterClientPath(i) = {}
              THEN hpc = "commit" \/ (hpc = "closed" /\ gh.abortedCommits > 0)
              ELSE sent_up[Minimum(LaterClientPath(i))].kind = "manual"
    /\ \A j \in 1..Len(sent_up) :
          sent_up[j].kind = "manual" =>
              /\ EarlierClientPath(j) # {}
              /\ IsCommit(sent_up[Maximum(EarlierClientPath(j))])

\* a commit was answered by the proxy's response.create while the bridge sent
\* a function output in between, and a later client message followed
C19_Witness ==
    \E i, j, k, m \in 1..Len(sent_up) :
        /\ i < j /\ j < k /\ k < m
        /\ IsCommit(sent_up[i])
        /\ sent_up[j].type = "function_call_output"
        /\ sent_up[k].kind = "manual"
        /\ sent_up[m].kind = "client"
====
